---- MODULE Spec2Model ----
(***************************************************************************)
(* Model of ConfigLoader (src/src/loader.ts): the environment snapshot     *)
(* (#envCache), the host sources it is merged from (process.env,           *)
(* import.meta.env, Deno.env, the window-injected objects, the global      *)
(* __ENV__), and the accessor operations.                                  *)
(*                                                                         *)
(* JavaScript strings are sequences of one-character strings, so that      *)
(* prefixing, startsWith and toLowerCase are computed.  JavaScript values  *)
(* are records tagged with their type.  Keys range over configuration      *)
(* names and their prefixed forms (the Configuration interface of the      *)
(* README); names inherited from Object.prototype are outside the model.   *)
(***************************************************************************)
EXTENDS Naturals, Sequences, FiniteSets, TLC

VARIABLES hosts,      \* the host globals the loader reads, by source name
          broken,     \* the sources whose read throws (Deno: permission denied)
          writes,     \* number of changes the host made to its sources
          pc,         \* "boot" before `new ConfigLoader()`, "ready" after
          envCache,   \* ConfigLoader.#envCache
          last,       \* the most recent call on the loader and its outcome
          written,    \* history: the keys set since the last refresh, and the values
          dropped     \* history: the keys only set had placed, that the last
                      \* refresh removed and no source has defined since

vars == <<hosts, broken, writes, pc, envCache, last, written, dropped>>

----------------------------------------------------------------------------
(* Bounds of the model *)

MaxWrites == 2

----------------------------------------------------------------------------
(* JavaScript values *)

Undefined == [t |-> "undefined"]
Str(s) == [t |-> "string", s |-> s]
Bool(b) == [t |-> "boolean", b |-> b]
Num(n) == [t |-> "number", n |-> n]
NaN == [t |-> "number", nan |-> TRUE]

IsString(v) == v.t = "string"

EmptyObject == [k \in {} |-> Undefined]

\* key in obj, for the own properties the model keeps
In(key, obj) == key \in DOMAIN obj

\* obj[key]: the property's value, undefined when there is none
Prop(obj, key) == IF key \in DOMAIN obj THEN obj[key] ELSE Undefined

\* obj[key] = value
PutProp(obj, key, value) ==
  [x \in DOMAIN obj \cup {key} |-> IF x = key THEN value ELSE obj[x]]

\* mutant of ObjectAssign: the properties the target has already are kept
ObjectAssignKeep(target, source) ==
  [x \in DOMAIN target \cup DOMAIN source |->
     IF x \in DOMAIN target THEN target[x] ELSE source[x]]

\* Object.assign(target, source)
ObjectAssign(target, source) ==
  [x \in DOMAIN target \cup DOMAIN source |->
     IF x \in DOMAIN source THEN source[x] ELSE target[x]]

\* s.startsWith(p)
StartsWith(s, p) == Len(p) =< Len(s) /\ SubSeq(s, 1, Len(p)) = p

\* a JavaScript string is truthy unless it is empty
Truthy(s) == Len(s) > 0

----------------------------------------------------------------------------
(* Strings of the program and of the modelled hosts *)

VITE == <<"V", "I", "T", "E", "_">>
REACT_APP == <<"R", "E", "A", "C", "T", "_", "A", "P", "P", "_">>
VUE_APP == <<"V", "U", "E", "_", "A", "P", "P", "_">>
NEXT_PUBLIC == <<"N", "E", "X", "T", "_", "P", "U", "B", "L", "I", "C", "_">>

\* get: const commonPrefixes = [...]
commonPrefixes == <<VITE, REACT_APP, VUE_APP, NEXT_PUBLIC>>

\* the configuration names the callers ask for
Names == {<<"K">>}

\* the keys a host source defines: the process environment has the name
\* itself and two of its prefixed forms, the browser-injected objects the name
\* alone
HostKeys(src) ==
  CASE src = "process" -> {<<"K">>, VITE \o <<"K">>, REACT_APP \o <<"K">>}
    [] src \in {"importMeta", "Deno", "globalENV"} -> {<<"K">>, VITE \o <<"K">>}
    [] OTHER -> {<<"K">>}

\* the values a host source gives its keys.  Environment variables are
\* strings; a plain object (import.meta.env with its DEV and PROD flags) can
\* hold a boolean.  Sources differ in their values, so that a value tells
\* which source it came from.
HostValues(src) ==
  CASE src = "process" -> {Str(<<"1">>), Str(<<"n", "o">>)}
    [] src = "importMeta" -> {Bool(TRUE)}
    [] src = "Deno" -> {Str(<<"O", "n">>)}
    [] src = "windowENV" -> {Str(<<"y", "e", "s">>)}
    [] src = "windowEnv" -> {Str(<<"0">>)}
    [] src = "windowProcess" -> {Str(<<"o", "f", "f">>)}
    [] src = "globalENV" -> {Str(<<"T", "R", "U", "E">>)}

\* the values callers write with set
SetValues == {Str(<<"t", "r", "u", "e">>), Str(<<"a", "b", "c">>)}

\* the options objects callers pass: none, { prefix: '' } and a prefix of
\* their own, here one that is also a common prefix
NoOptions == [f \in {} |-> <<>>]
WithPrefix(p) == [f \in {"prefix"} |-> p]
OptionsPool == {NoOptions, WithPrefix(<<>>), WithPrefix(REACT_APP)}

\* the prefixes callers pass to getAll; the empty one stands for undefined
\* too, both being falsy
AllPrefixPool == {<<>>, VITE, <<"V">>}

----------------------------------------------------------------------------
(* The host sources *)

Sources == {"process", "importMeta", "Deno", "windowENV", "windowEnv",
            "windowProcess", "globalENV"}

\* the candidates for the browser-injected object
WindowSources == {"windowENV", "windowEnv", "windowProcess"}

AbsentSource == [present |-> FALSE, vars |-> EmptyObject]

\* (window as any).__ENV__ || (window as any).env || (window as any).process?.env
windowEnv(h) ==
  IF h["windowENV"].present THEN "windowENV"
  ELSE IF h["windowEnv"].present THEN "windowEnv"
  ELSE IF h["windowProcess"].present THEN "windowProcess"
  ELSE ""

----------------------------------------------------------------------------
(* #loadEnvironmentVariables *)

\* one `if (source) Object.assign(this.#envCache, source)` of the loader; acc
\* is the cache so far and the source whose read threw, if any.  Only the
\* Deno block sits in a try/catch.
LoadStep(acc, h, br, src, guarded) ==
  IF acc.threw # "" \/ src = "" THEN acc
  ELSE IF ~h[src].present THEN acc
  ELSE IF src \in br
    THEN IF guarded THEN acc ELSE [acc EXCEPT !.threw = src]
  ELSE [acc EXCEPT !.cache = ObjectAssign(@, h[src].vars)]

loadEnvironmentVariables(cache, h, br) ==
  LET a0 == [cache |-> cache, threw |-> ""]
      a1 == LoadStep(a0, h, br, "process", FALSE)
      a2 == LoadStep(a1, h, br, "importMeta", FALSE)
      a3 == LoadStep(a2, h, br, "Deno", TRUE)
      a4 == LoadStep(a3, h, br, windowEnv(h), FALSE)
      a5 == LoadStep(a4, h, br, "globalENV", FALSE)
  IN a5

----------------------------------------------------------------------------
(* Outcomes of a method: the cache it leaves and what it returns or throws *)

Return(cache, v) == [cache |-> cache, kind |-> "return", val |-> v]
Throw(cache, e) == [cache |-> cache, kind |-> "throw", val |-> e]

\* what a failing read of a host source throws (a permission error, say)
HostError(src) == [t |-> "error", name |-> "HostError", source |-> src]

\* new Error(message, options): the cause is installed only when options is an
\* object that has a "cause" property
Error(message, options) ==
  IF options.t = "error" /\ "cause" \in DOMAIN options
    THEN [t |-> "error", name |-> "Error", message |-> message,
          cause |-> options.cause]
    ELSE [t |-> "error", name |-> "Error", message |-> message]

\* new Error(message)
Error1(message) == [t |-> "error", name |-> "Error", message |-> message]

----------------------------------------------------------------------------
(* #tryGetValue *)

\* mutant of Fill: the value is returned and not written into the cache
FillNothing(cache, key, value) == Return(cache, value)

\* `this.#envCache[key] = value; return value;`
Fill(cache, key, value) == Return(PutProp(cache, key, value), value)

\* mutant of tryGetValue: the snapshot is asked after the live sources
tryGetValueCacheLast(cache, h, br, key) ==
  LET live == {src \in {"process", "importMeta", "Deno"} :
                 h[src].present /\ src \notin br /\ In(key, h[src].vars)}
      first == IF "process" \in live THEN "process"
               ELSE IF "importMeta" \in live THEN "importMeta" ELSE "Deno"
  IN IF live # {}
       THEN Return(PutProp(cache, key, h[first].vars[key]), h[first].vars[key])
     ELSE IF In(key, cache) THEN Return(cache, cache[key])
     ELSE Return(cache, Undefined)

\* mutant of tryGetValue: the process environment is asked before the cache
tryGetValueLiveFirst(cache, h, br, key) ==
  IF h["process"].present /\ "process" \notin br /\ In(key, h["process"].vars)
    THEN Return(PutProp(cache, key, h["process"].vars[key]), h["process"].vars[key])
  ELSE IF In(key, cache) THEN Return(cache, cache[key])
  ELSE IF h["importMeta"].present /\ "importMeta" \notin br
            /\ In(key, h["importMeta"].vars)
    THEN Return(PutProp(cache, key, h["importMeta"].vars[key]),
                h["importMeta"].vars[key])
  ELSE IF h["Deno"].present /\ "Deno" \notin br /\ In(key, h["Deno"].vars)
    THEN Return(PutProp(cache, key, h["Deno"].vars[key]), h["Deno"].vars[key])
  ELSE Return(cache, Undefined)

tryGetValue(cache, h, br, key) ==
  LET fromDeno ==
        IF h["Deno"].present /\ "Deno" \notin br
             /\ Prop(h["Deno"].vars, key) # Undefined
          THEN Fill(cache, key, Prop(h["Deno"].vars, key))
          ELSE Return(cache, Undefined)
      fromImportMeta ==
        IF ~h["importMeta"].present THEN fromDeno
        ELSE IF "importMeta" \in br THEN Throw(cache, HostError("importMeta"))
        ELSE IF Prop(h["importMeta"].vars, key) # Undefined
          THEN Fill(cache, key, Prop(h["importMeta"].vars, key))
        ELSE fromDeno
      fromProcess ==
        IF ~h["process"].present THEN fromImportMeta
        ELSE IF "process" \in br THEN Throw(cache, HostError("process"))
        ELSE IF In(key, h["process"].vars) /\ h["process"].vars[key] # Undefined
          THEN Fill(cache, key, h["process"].vars[key])
        ELSE fromImportMeta
  IN IF In(key, cache) THEN Return(cache, cache[key]) ELSE fromProcess

----------------------------------------------------------------------------
(* get *)

\* const { prefix = '' } = options
prefixOf(options) ==
  IF "prefix" \in DOMAIN options THEN options["prefix"] ELSE <<>>

\* const fullKey = prefix ? `${prefix}${key}` : key
fullKeyOf(key, options) ==
  IF Truthy(prefixOf(options)) THEN prefixOf(options) \o key ELSE key

\* for (const commonPrefix of commonPrefixes) { ...; if (value !== undefined) break; }
RECURSIVE tryCommonPrefixes(_, _, _, _, _)
tryCommonPrefixes(cache, h, br, key, i) ==
  IF i > Len(commonPrefixes) THEN Return(cache, Undefined)
  ELSE LET r == tryGetValue(cache, h, br, commonPrefixes[i] \o key)
       IN IF r.kind = "throw" \/ r.val # Undefined THEN r
          ELSE tryCommonPrefixes(r.cache, h, br, key, i + 1)

\* mutant of get: the common prefixes are tried whatever prefix was given
getAlwaysCommon(cache, h, br, key, options) ==
  LET r == tryGetValue(cache, h, br, fullKeyOf(key, options))
  IN IF r.kind = "return" /\ r.val = Undefined
       THEN tryCommonPrefixes(r.cache, h, br, key, 1)
       ELSE r

get(cache, h, br, key, options) ==
  LET r == tryGetValue(cache, h, br, fullKeyOf(key, options))
  IN IF r.kind = "return" /\ r.val = Undefined /\ ~Truthy(prefixOf(options))
       THEN tryCommonPrefixes(r.cache, h, br, key, 1)
       ELSE r

----------------------------------------------------------------------------
(* getRequired, getWithDefault *)

\* `Required config value "${key}" is not defined`
RequiredMessage(key) ==
  [text |-> "Required config value \"${key}\" is not defined", key |-> key]

\* mutant of getRequired: the error names the key with the prefix applied
getRequiredFullKey(cache, h, br, key, options) ==
  LET r == get(cache, h, br, key, options)
  IN IF r.kind = "return" /\ r.val = Undefined
       THEN Throw(r.cache, Error1(RequiredMessage(fullKeyOf(key, options))))
       ELSE r

getRequired(cache, h, br, key, options) ==
  LET r == get(cache, h, br, key, options)
  IN IF r.kind = "return" /\ r.val = Undefined
       THEN Throw(r.cache, Error1(RequiredMessage(key)))
       ELSE r

getWithDefault(cache, h, br, key, defaultValue, options) ==
  LET r == get(cache, h, br, key, options)
  IN IF r.kind = "return" /\ r.val = Undefined
       THEN Return(r.cache, defaultValue)
       ELSE r

----------------------------------------------------------------------------
(* The transforms of the typed getters, and the library calls they make *)

UpperCase == <<"A", "B", "C", "D", "E", "F", "G", "H", "I", "J", "K", "L", "M",
               "N", "O", "P", "Q", "R", "S", "T", "U", "V", "W", "X", "Y", "Z">>
LowerCase == <<"a", "b", "c", "d", "e", "f", "g", "h", "i", "j", "k", "l", "m",
               "n", "o", "p", "q", "r", "s", "t", "u", "v", "w", "x", "y", "z">>
Digits == <<"0", "1", "2", "3", "4", "5", "6", "7", "8", "9">>

IndexIn(seq, c) == CHOOSE i \in 1..Len(seq) : seq[i] = c
Occurs(seq, c) == \E i \in 1..Len(seq) : seq[i] = c

\* String.prototype.toLowerCase, on the letters of the model's strings
toLowerCase(s) ==
  [i \in 1..Len(s) |->
     IF Occurs(UpperCase, s[i]) THEN LowerCase[IndexIn(UpperCase, s[i])] ELSE s[i]]

\* what `return` or `throw` a transform ends with
Returns(v) == [kind |-> "return", val |-> v]
Throws(e) == [kind |-> "throw", val |-> e]

\* mutant of booleanTransform: the value is compared as it is written
booleanTransformCaseSensitive(value) ==
  IF ~IsString(value)
    THEN Throws([t |-> "error", name |-> "TypeError",
                 message |-> [text |-> "value.toLowerCase is not a function"]])
    ELSE Returns(Bool(value.s = <<"t", "r", "u", "e">> \/ value.s = <<"1">>
                      \/ value.s = <<"y", "e", "s">> \/ value.s = <<"o", "n">>))

\* getBoolean's transform; value.toLowerCase is not a function unless value
\* is a string
booleanTransform(value) ==
  IF ~IsString(value)
    THEN Throws([t |-> "error", name |-> "TypeError",
                 message |-> [text |-> "value.toLowerCase is not a function"]])
    ELSE LET lower == toLowerCase(value.s)
         IN Returns(Bool(lower = <<"t", "r", "u", "e">> \/ lower = <<"1">>
                         \/ lower = <<"y", "e", "s">> \/ lower = <<"o", "n">>))

\* the decimal value of a sequence of digits
RECURSIVE DecimalValue(_)
DecimalValue(s) ==
  IF s = <<>> THEN 0
  ELSE 10 * DecimalValue(SubSeq(s, 1, Len(s) - 1)) + (IndexIn(Digits, s[Len(s)]) - 1)

AllDigits(s) == \A i \in 1..Len(s) : Occurs(Digits, s[i])

\* Number(value), for booleans and for the strings of the model: a sequence of
\* digits (the empty one is 0), and otherwise words that are not numeric
Number(value) ==
  IF value.t = "boolean" THEN Num(IF value.b THEN 1 ELSE 0)
  ELSE IF AllDigits(value.s) THEN Num(DecimalValue(value.s))
  ELSE NaN

\* getNumber's transform
numberTransform(value) ==
  IF Number(value) = NaN
    THEN Throws(Error1([text |-> "Value \"${value}\" is not a valid number",
                        value |-> value]))
    ELSE Returns(Number(value))

\* the errors a transform of the caller's own throws: one without a cause
\* and one that has a cause of its own
PlainFailure == Error1([text |-> "bad value"])
ChainedFailure ==
  [t |-> "error", name |-> "Error", message |-> [text |-> "bad value"],
   cause |-> Error1([text |-> "root cause"])]
CallerFailures == {PlainFailure, ChainedFailure}

\* the transforms callers pass to getTransformed: functions that throw e
CallerTransforms == {[fn |-> "throws", e |-> e] : e \in CallerFailures}

\* transform(value)
Apply(transform, value) ==
  IF transform.fn = "boolean" THEN booleanTransform(value)
  ELSE IF transform.fn = "number" THEN numberTransform(value)
  ELSE Throws(transform.e)

----------------------------------------------------------------------------
(* getTransformed and the typed getters *)

\* `Failed to transform config value for key "${fullKey}":`
TransformMessage(fullKey) ==
  [text |-> "Failed to transform config value for key \"${fullKey}\":",
   fullKey |-> fullKey]

getTransformed(cache, h, br, key, transform, options) ==
  LET r == get(cache, h, br, key, options)
  IN IF r.kind = "throw" THEN r
     ELSE IF r.val # Undefined
       THEN LET t == Apply(transform, r.val)
            IN IF t.kind = "return" THEN Return(r.cache, t.val)
               ELSE Throw(r.cache,
                          Error(TransformMessage(fullKeyOf(key, options)), t.val))
     ELSE Return(r.cache, Undefined)

getBoolean(cache, h, br, key, options) ==
  getTransformed(cache, h, br, key, [fn |-> "boolean"], options)

getNumber(cache, h, br, key, options) ==
  getTransformed(cache, h, br, key, [fn |-> "number"], options)

----------------------------------------------------------------------------
(* getAll, refresh, set, has *)

\* mutant of getAll: without a prefix the snapshot itself is returned
getAllShared(cache, prefix) ==
  IF ~Truthy(prefix)
    THEN [t |-> "object", ref |-> "envCache", props |-> cache]
    ELSE [t |-> "object", ref |-> "result",
          props |-> [key \in {k \in DOMAIN cache : StartsWith(k, prefix)} |-> cache[key]]]

\* the object getAll builds and returns: `const result = {}` is a new object
getAll(cache, prefix) ==
  [t |-> "object", ref |-> "result",
   props |-> [key \in {k \in DOMAIN cache : ~Truthy(prefix) \/ StartsWith(k, prefix)}
                |-> cache[key]]]

\* mutant of refresh: the sources are merged into the cache as it is
refreshKeepsCache(h, br) == loadEnvironmentVariables(envCache, h, br)

\* this.#envCache = {}; this.#loadEnvironmentVariables()
refresh(h, br) == loadEnvironmentVariables(EmptyObject, h, br)

\* this.#envCache[key] = value
set(cache, key, value) == PutProp(cache, key, value)

\* return this.get(key) !== undefined
has(cache, h, br, key) ==
  LET r == get(cache, h, br, key, NoOptions)
  IN IF r.kind = "throw" THEN r ELSE Return(r.cache, Bool(r.val # Undefined))

----------------------------------------------------------------------------
(* The state machine *)

NoCall ==
  [op |-> "none", key |-> <<>>, options |-> NoOptions, arg |-> Undefined,
   added |-> {}, out |-> [kind |-> "return", val |-> Undefined]]

Init ==
  /\ hosts = [src \in Sources |-> AbsentSource]
  /\ broken = {}
  /\ writes = 0
  /\ pc = "boot"
  /\ envCache = EmptyObject
  /\ last = NoCall
  /\ written = EmptyObject
  /\ dropped = {}

\* whether some source of the host defines key
Defined(h, key) == \E src \in Sources : In(key, h[src].vars)

\* the host defines or changes a variable of one of its sources
HostSet(src, key, value) ==
  /\ writes < MaxWrites
  /\ pc # "failed"
  /\ Prop(hosts[src].vars, key) # value
  /\ hosts' = [hosts EXCEPT ![src] =
                 [present |-> TRUE, vars |-> PutProp(hosts[src].vars, key, value)]]
  /\ writes' = writes + 1
  /\ dropped' = dropped \ {key}
  /\ UNCHANGED <<broken, pc, envCache, last, written>>

\* the host removes a variable from one of its sources
HostDelete(src, key) ==
  /\ writes < MaxWrites
  /\ pc # "failed"
  /\ In(key, hosts[src].vars)
  /\ hosts' = [hosts EXCEPT ![src].vars =
                 [k \in DOMAIN hosts[src].vars \ {key} |-> hosts[src].vars[k]]]
  /\ writes' = writes + 1
  /\ UNCHANGED <<broken, pc, envCache, last, written, dropped>>

\* the host provides a source that defines nothing yet
HostInstall(src) ==
  /\ writes < MaxWrites
  /\ pc # "failed"
  /\ ~hosts[src].present
  /\ hosts' = [hosts EXCEPT ![src].present = TRUE]
  /\ writes' = writes + 1
  /\ UNCHANGED <<broken, pc, envCache, last, written, dropped>>

\* Deno grants or withdraws the permission to read its environment
DenoPermission ==
  /\ writes < MaxWrites
  /\ pc # "failed"
  /\ hosts["Deno"].present
  /\ broken' = IF "Deno" \in broken THEN broken \ {"Deno"} ELSE broken \cup {"Deno"}
  /\ writes' = writes + 1
  /\ UNCHANGED <<hosts, pc, envCache, last, written, dropped>>

\* the read of a source other than Deno's starts to throw
BreakSource(src) ==
  /\ writes < MaxWrites
  /\ pc # "failed"
  /\ hosts[src].present
  /\ src \notin broken
  /\ broken' = broken \cup {src}
  /\ writes' = writes + 1
  /\ UNCHANGED <<hosts, pc, envCache, last, written, dropped>>

\* a call of the loader that ends with outcome r
Call(op, key, options, arg, r) ==
  /\ envCache' = r.cache
  /\ last' = [op |-> op, key |-> key, options |-> options, arg |-> arg,
              added |-> DOMAIN r.cache \ DOMAIN envCache,
              out |-> [kind |-> r.kind, val |-> r.val]]
  /\ UNCHANGED <<hosts, broken, writes>>

\* export const configLoader = new ConfigLoader()
Construct ==
  /\ pc = "boot"
  /\ LET r == loadEnvironmentVariables(EmptyObject, hosts, broken)
     IN IF r.threw = ""
          THEN /\ pc' = "ready"
               /\ Call("new", <<>>, NoOptions, Undefined, Return(r.cache, Undefined))
          ELSE /\ pc' = "failed"
               /\ Call("new", <<>>, NoOptions, Undefined,
                       Throw(r.cache, HostError(r.threw)))
  /\ UNCHANGED <<written, dropped>>

Get(key, options) ==
  /\ pc = "ready"
  /\ Call("get", key, options, Undefined, get(envCache, hosts, broken, key, options))
  /\ UNCHANGED <<pc, written, dropped>>

Has(key) ==
  /\ pc = "ready"
  /\ Call("has", key, NoOptions, Undefined, has(envCache, hosts, broken, key))
  /\ UNCHANGED <<pc, written, dropped>>

GetRequired(key, options) ==
  /\ pc = "ready"
  /\ Call("getRequired", key, options, Undefined,
          getRequired(envCache, hosts, broken, key, options))
  /\ UNCHANGED <<pc, written, dropped>>

GetWithDefault(key, defaultValue, options) ==
  /\ pc = "ready"
  /\ Call("getWithDefault", key, options, defaultValue,
          getWithDefault(envCache, hosts, broken, key, defaultValue, options))
  /\ UNCHANGED <<pc, written, dropped>>

GetTransformed(key, transform, options) ==
  /\ pc = "ready"
  /\ Call("getTransformed", key, options, transform,
          getTransformed(envCache, hosts, broken, key, transform, options))
  /\ UNCHANGED <<pc, written, dropped>>

GetBoolean(key, options) ==
  /\ pc = "ready"
  /\ Call("getBoolean", key, options, Undefined,
          getBoolean(envCache, hosts, broken, key, options))
  /\ UNCHANGED <<pc, written, dropped>>

GetNumber(key, options) ==
  /\ pc = "ready"
  /\ Call("getNumber", key, options, Undefined,
          getNumber(envCache, hosts, broken, key, options))
  /\ UNCHANGED <<pc, written, dropped>>

GetAll(prefix) ==
  /\ pc = "ready"
  /\ Call("getAll", <<>>, NoOptions, Str(prefix),
          Return(envCache, getAll(envCache, prefix)))
  /\ UNCHANGED <<pc, written, dropped>>

\* the caller writes into the object getAll returned to it; the write lands in
\* the snapshot too when that object is the snapshot itself
ChangeResult(key, value) ==
  /\ pc = "ready"
  /\ last.op = "getAll"
  /\ LET changed == [last.out.val EXCEPT !.props = PutProp(@, key, value)]
         cache == IF last.out.val.ref = "envCache"
                    THEN PutProp(envCache, key, value) ELSE envCache
     IN Call("change", key, NoOptions, value, Return(cache, changed))
  /\ UNCHANGED <<pc, written, dropped>>

Refresh ==
  /\ pc = "ready"
  /\ LET r == refresh(hosts, broken)
     IN IF r.threw = ""
          THEN Call("refresh", <<>>, NoOptions, Undefined, Return(r.cache, Undefined))
          ELSE Call("refresh", <<>>, NoOptions, Undefined,
                    Throw(r.cache, HostError(r.threw)))
  /\ written' = EmptyObject
  /\ dropped' = {k \in DOMAIN written : ~Defined(hosts, k)}
  /\ UNCHANGED pc

Set(key, value) ==
  /\ pc = "ready"
  /\ Call("set", key, NoOptions, value, Return(set(envCache, key, value), Undefined))
  /\ written' = PutProp(written, key, value)
  /\ dropped' = dropped \ {key}
  /\ UNCHANGED pc

Host ==
  \/ \E src \in Sources : \E key \in HostKeys(src), value \in HostValues(src) :
       HostSet(src, key, value)
  \/ \E src \in Sources : \E key \in HostKeys(src) : HostDelete(src, key)
  \/ \E src \in WindowSources : HostInstall(src)
  \/ DenoPermission

Loader ==
  \/ Construct
  \/ \E key \in Names, options \in OptionsPool : Get(key, options)
  \/ \E key \in Names : Has(key)
  \/ \E key \in Names, options \in OptionsPool : GetRequired(key, options)
  \/ \E key \in Names : GetWithDefault(key, Num(5000), NoOptions)
  \/ \E key \in Names, transform \in CallerTransforms, options \in OptionsPool :
       GetTransformed(key, transform, options)
  \/ \E key \in Names, options \in OptionsPool : GetBoolean(key, options)
  \/ \E key \in Names : GetNumber(key, NoOptions)
  \/ \E prefix \in AllPrefixPool : GetAll(prefix)
  \/ \E key \in Names : ChangeResult(key, Str(<<"x">>))
  \/ Refresh
  \/ \E key \in Names, value \in SetValues : Set(key, value)

Next == Host \/ Loader

Spec == Init /\ [][Next]_vars

\* the hosts of SpecHostile: a read of any source may start to throw
Hostile == \E src \in Sources \ {"Deno"} : BreakSource(src)

NextHostile == Next \/ Hostile

SpecHostile == Init /\ [][NextHostile]_vars

----------------------------------------------------------------------------
(* What the claims speak of *)

\* the step is a call of the loader named op
Calls(op) == last' # last /\ last'.op = op

\* the caller gave no prefix, or gave one
NoPrefixGiven(options) == "prefix" \notin DOMAIN options
PrefixGiven(options) == "prefix" \in DOMAIN options

Returned(v) == [kind |-> "return", val |-> v]

\* the common prefixes, in the order the documentation gives them
DocumentedPrefixes == <<VITE, REACT_APP, VUE_APP, NEXT_PUBLIC>>

\* what the direct lookup of key finds in the current state
Direct(key) == tryGetValue(envCache, hosts, broken, key).val

\* the value under the first common prefix whose key the direct lookup
\* finds, undefined when it finds none
FirstCommon(key) ==
  LET hits == {i \in 1..Len(DocumentedPrefixes) :
                 Direct(DocumentedPrefixes[i] \o key) # Undefined}
  IN IF hits = {} THEN Undefined
     ELSE Direct(DocumentedPrefixes[CHOOSE i \in hits : \A j \in hits : i =< j] \o key)

----------------------------------------------------------------------------
(* C1 *)

\* C1: after set(k, v), until the next refresh() or the next set on k, every
\* get(k) without a prefix returns v and has(k) returns true, whatever the
\* sources hold and whatever other calls came between.
C1_SetThenGet ==
  [][\A k \in DOMAIN written :
       /\ (Calls("get") /\ last'.key = k /\ ~Truthy(prefixOf(last'.options)))
            => last'.out = Returned(written[k])
       /\ (Calls("has") /\ last'.key = k)
            => last'.out = Returned(Bool(TRUE))]_vars

\* a get of a key that was set, while a source defines the key with another value
C1_Witness ==
  /\ last.op = "get"
  /\ last.key \in DOMAIN written
  /\ In(last.key, hosts["process"].vars)
  /\ hosts["process"].vars[last.key] # written[last.key]
  /\ last.out = Returned(written[last.key])

----------------------------------------------------------------------------
(* C2 *)

\* C2 as stated: for k absent unprefixed from the snapshot and from every
\* source, get(k) without a prefix returns the value under the first common
\* prefix the direct lookup finds, and get(k, {prefix: p}) returns what the
\* direct lookup of p+k finds and nothing else, for every prefix p the caller
\* supplies.
C2_AsStated ==
  [][(Calls("get") /\ ~In(last'.key, envCache) /\ ~Defined(hosts, last'.key))
       => /\ NoPrefixGiven(last'.options)
               => last'.out = Returned(FirstCommon(last'.key))
          /\ PrefixGiven(last'.options)
               => last'.out = Returned(Direct(last'.options["prefix"] \o last'.key))]_vars

\* C2 amended: the same, for every non-empty prefix p the caller supplies;
\* an empty prefix is no prefix, and the common prefixes are tried.
C2_CommonPrefixes ==
  [][(Calls("get") /\ ~In(last'.key, envCache) /\ ~Defined(hosts, last'.key))
       => /\ (NoPrefixGiven(last'.options) \/ last'.options["prefix"] = <<>>)
               => last'.out = Returned(FirstCommon(last'.key))
          /\ (PrefixGiven(last'.options) /\ last'.options["prefix"] # <<>>)
               => last'.out = Returned(Direct(last'.options["prefix"] \o last'.key))]_vars

\* a get with the caller's prefix found nothing although the key is there
\* under a common prefix
C2_Witness ==
  /\ last.op = "get"
  /\ PrefixGiven(last.options)
  /\ last.options["prefix"] = REACT_APP
  /\ last.out = Returned(Undefined)
  /\ ~In(last.key, envCache)
  /\ In(VITE \o last.key, envCache)

----------------------------------------------------------------------------
(* C3 *)

\* C3 as stated: when K was placed in the snapshot only by set and no source
\* defines K, has(K) returns false after refresh().
C3_AsStated ==
  [][(Calls("has") /\ last'.key \in dropped /\ ~Defined(hosts, last'.key))
       => last'.out = Returned(Bool(FALSE))]_vars

\* C3 amended: in that case the snapshot has no entry K after refresh(), and
\* has(K) returns false unless the lookup finds K under one of the common
\* prefixes.
C3_RefreshDropsSet ==
  [][/\ \A k \in dropped' : ~In(k, envCache')
     /\ (Calls("has") /\ last'.key \in dropped /\ ~Defined(hosts, last'.key))
          => last'.out = Returned(Bool(FirstCommon(last'.key) # Undefined))]_vars

\* has(K) returned false for a key that set had placed and refresh removed
C3_Witness ==
  /\ last.op = "has"
  /\ last.key \in dropped
  /\ last.out = Returned(Bool(FALSE))

----------------------------------------------------------------------------
(* C4 *)

\* C4: getRequired returns what get returns whenever get finds a value, and
\* otherwise, and only then, fails with the required-missing error that names
\* the key as the caller passed it.
C4_GetRequired ==
  [][Calls("getRequired")
       => LET g == get(envCache, hosts, broken, last'.key, last'.options)
          IN IF g.val # Undefined
               THEN last'.out = Returned(g.val)
               ELSE /\ last'.out.kind = "throw"
                    /\ last'.out.val.name = "Error"
                    /\ last'.out.val.message.key = last'.key]_vars

\* getRequired failed for a key asked for with a prefix, and named the key
\* without the prefix
C4_Witness ==
  /\ last.op = "getRequired"
  /\ PrefixGiven(last.options)
  /\ last.options["prefix"] = REACT_APP
  /\ last.out.kind = "throw"
  /\ last.out.val.message.key = last.key
  /\ last.out.val.message.key # REACT_APP \o last.key

----------------------------------------------------------------------------
(* C5 *)

\* the key under which get finds the value of key
FoundUnder(key, options) ==
  IF PrefixGiven(options) /\ options["prefix"] # <<>> THEN options["prefix"] \o key
  ELSE IF Direct(key) # Undefined THEN key
  ELSE DocumentedPrefixes[CHOOSE i \in 1..Len(DocumentedPrefixes) :
         /\ Direct(DocumentedPrefixes[i] \o key) # Undefined
         /\ \A j \in 1..(i - 1) : Direct(DocumentedPrefixes[j] \o key) = Undefined] \o key

\* C5: when get finds a value and the transform fails, getTransformed fails
\* with an error that carries the key under which the value was found and
\* the failure of the transform as its cause.
C5_AsStated ==
  [][Calls("getTransformed")
       => LET g == get(envCache, hosts, broken, last'.key, last'.options)
          IN g.val # Undefined
               => /\ last'.out.kind = "throw"
                  /\ last'.out.val.message.fullKey = FoundUnder(last'.key, last'.options)
                  /\ "cause" \in DOMAIN last'.out.val
                  /\ last'.out.val.cause = last'.arg.e]_vars

----------------------------------------------------------------------------
(* C6 *)

\* s and w are the same word when the case of the letters is ignored
SameIgnoringCase(s, w) ==
  /\ Len(s) = Len(w)
  /\ \A i \in 1..Len(s) :
       \/ s[i] = w[i]
       \/ \E j \in 1..Len(UpperCase) : {s[i], w[i]} = {UpperCase[j], LowerCase[j]}

\* the words the documentation has getBoolean accept
AcceptedWords == {<<"t", "r", "u", "e">>, <<"1">>, <<"y", "e", "s">>, <<"o", "n">>}

Accepted(v) == IsString(v) /\ \E w \in AcceptedWords : SameIgnoringCase(v.s, w)

\* C6: for every value get returns, getBoolean returns true when
\* the value is one of the accepted words in any case and false otherwise,
\* never fails, and returns not-found only when get does.
C6_AsStated ==
  [][Calls("getBoolean")
       => LET g == get(envCache, hosts, broken, last'.key, last'.options)
          IN IF g.val = Undefined
               THEN last'.out = Returned(Undefined)
               ELSE last'.out = Returned(Bool(Accepted(g.val)))]_vars

\* what the code does: the same for every string get returns, and the
\* transform-failed error for a value that is not a string, which a source
\* object can hold.
BooleanOfStrings ==
  [][Calls("getBoolean")
       => LET g == get(envCache, hosts, broken, last'.key, last'.options)
          IN IF g.val = Undefined THEN last'.out = Returned(Undefined)
             ELSE IF IsString(g.val) THEN last'.out = Returned(Bool(Accepted(g.val)))
             ELSE /\ last'.out.kind = "throw"
                  /\ last'.out.val.message
                       = TransformMessage(fullKeyOf(last'.key, last'.options))]_vars

\* getBoolean returned true for a value in capitals
BooleanOfCapitals ==
  /\ last.op = "getBoolean"
  /\ last.out = Returned(Bool(TRUE))
  /\ In(last.key, envCache)
  /\ envCache[last.key] = Str(<<"T", "R", "U", "E">>)

----------------------------------------------------------------------------
(* C7 *)

\* p is an initial part of k
InitialPart(p, k) == \E n \in 0..Len(k) : SubSeq(k, 1, n) = p

\* C7: getAll(prefix) returns the snapshot's entries whose key starts with
\* prefix, keys and values unchanged, and all of them without a prefix; the
\* snapshot is left as it was by the call and by a change the caller makes
\* to the returned mapping.
C7_GetAll ==
  [][/\ Calls("getAll")
          => /\ DOMAIN last'.out.val.props
                  = {k \in DOMAIN envCache : InitialPart(last'.arg.s, k)}
             /\ \A k \in DOMAIN last'.out.val.props :
                  last'.out.val.props[k] = envCache[k]
             /\ envCache' = envCache
     /\ Calls("change") => envCache' = envCache]_vars

\* the caller changed an entry of the returned mapping, and the snapshot
\* still has its own
C7_Witness ==
  /\ last.op = "change"
  /\ In(last.key, envCache)
  /\ last.out.val.props[last.key] # envCache[last.key]
  /\ In(VITE \o last.key, envCache)

----------------------------------------------------------------------------
(* C8 *)

\* the sources a load reads, in the documented order: the ones that are
\* there and can be read, with the first browser-injected object present
Ranked(h, br) ==
  LET browser == IF h["windowENV"].present THEN <<"windowENV">>
                 ELSE IF h["windowEnv"].present THEN <<"windowEnv">>
                 ELSE IF h["windowProcess"].present THEN <<"windowProcess">>
                 ELSE <<>>
  IN SelectSeq(<<"process", "importMeta", "Deno">> \o browser \o <<"globalENV">>,
               LAMBDA src : h[src].present /\ src \notin br)

\* the snapshot the documented merge gives: each key has the value of the
\* last source in the order that defines it
Merged(h, br) ==
  LET order == Ranked(h, br)
      defines(k) == {i \in 1..Len(order) : In(k, h[order[i]].vars)}
      keys == UNION {DOMAIN h[order[i]].vars : i \in 1..Len(order)}
  IN [k \in keys |->
        h[order[CHOOSE i \in defines(k) : \A j \in defines(k) : j =< i]].vars[k]]

\* C8: after construction and after every refresh(), each key of the
\* snapshot has the value of the last source, in the order process, bundler,
\* Deno, browser-injected object, global __ENV__, that defines it, and a key
\* no reachable source defines is absent.
C8_Merge ==
  [][((Calls("new") \/ Calls("refresh")) /\ last'.out.kind = "return")
       => envCache' = Merged(hosts, broken)]_vars

\* after a refresh, a key that the process environment and the global
\* __ENV__ both define has the value of the global __ENV__
C8_Witness ==
  /\ last.op = "refresh"
  /\ \E k \in DOMAIN envCache :
       /\ In(k, hosts["process"].vars)
       /\ In(k, hosts["globalENV"].vars)
       /\ envCache[k] = hosts["globalENV"].vars[k]
       /\ envCache[k] # hosts["process"].vars[k]

----------------------------------------------------------------------------
(* C9 *)

\* the hosts as they would be if the sources in br were not there
Without(h, br) == [src \in Sources |-> IF src \in br THEN AbsentSource ELSE h[src]]

\* C9: a source that is absent or whose read fails is skipped: construction,
\* refresh() and get complete, and the other sources are merged, or queried,
\* as if the failing source had yielded nothing.
C9_AsStated ==
  [][/\ (Calls("new") \/ Calls("refresh"))
          => /\ last'.out.kind = "return"
             /\ envCache' = Merged(Without(hosts, broken), {})
     /\ Calls("get")
          => last'.out = Returned(get(envCache, Without(hosts, broken), {},
                                      last'.key, last'.options).val)]_vars

----------------------------------------------------------------------------
(* C10 *)

\* the sources the direct lookup asks after the snapshot, in its order
LookupOrder == <<"process", "importMeta", "Deno">>

\* the places in LookupOrder of the sources that have key now
Having(key) ==
  {i \in 1..Len(LookupOrder) :
     /\ hosts[LookupOrder[i]].present
     /\ LookupOrder[i] \notin broken
     /\ In(key, hosts[LookupOrder[i]].vars)}

FirstHaving(key) == LookupOrder[CHOOSE i \in Having(key) : \A j \in Having(key) : i =< j]

\* the key the call looks up first
Effective(key, options) ==
  IF PrefixGiven(options) THEN options["prefix"] \o key ELSE key

\* C10: when the effective key is not in the snapshot and a process-style,
\* bundler or Deno-style source has it, the lookup returns the value of the
\* first of them that has it and writes it into the snapshot, where get, has
\* and getAll then see it; when none has it the key stays out of the
\* snapshot, and a lookup that finds nothing leaves the snapshot unchanged.
C10_LazyFill ==
  [][Calls("get")
       => LET e == Effective(last'.key, last'.options)
          IN /\ (~In(e, envCache) /\ Having(e) # {})
                  => LET v == hosts[FirstHaving(e)].vars[e]
                     IN /\ last'.out = Returned(v)
                        /\ envCache' = PutProp(envCache, e, v)
                        /\ get(envCache', hosts, broken, e, NoOptions).val = v
                        /\ has(envCache', hosts, broken, e).val = Bool(TRUE)
                        /\ In(e, getAll(envCache', <<>>).props)
                        /\ getAll(envCache', <<>>).props[e] = v
             /\ (~In(e, envCache) /\ Having(e) = {})
                  => /\ ~In(e, envCache')
                     /\ Truthy(prefixOf(last'.options))
                          => (last'.out = Returned(Undefined) /\ envCache' = envCache)
             /\ last'.out = Returned(Undefined) => envCache' = envCache]_vars

\* a get put into the snapshot a key that two sources had gained since the
\* load, with the value of the process environment
C10_Witness ==
  /\ last.op = "get"
  /\ last.added = {last.key}
  /\ In(last.key, hosts["process"].vars)
  /\ In(last.key, hosts["importMeta"].vars)
  /\ last.out = Returned(hosts["process"].vars[last.key])
  /\ envCache[last.key] = hosts["process"].vars[last.key]

----------------------------------------------------------------------------
(* C11 *)

\* the operations that look a key up
Lookups ==
  {"get", "has", "getRequired", "getWithDefault", "getTransformed",
   "getBoolean", "getNumber"}

\* a host that offers no source at all
NoHosts == [src \in Sources |-> AbsentSource]

\* the outcome of the lookup op for a host h whose sources br fail to read
Answer(op, key, options, arg, h, br) ==
  CASE op = "get" -> get(envCache, h, br, key, options)
    [] op = "has" -> has(envCache, h, br, key)
    [] op = "getRequired" -> getRequired(envCache, h, br, key, options)
    [] op = "getWithDefault" -> getWithDefault(envCache, h, br, key, arg, options)
    [] op = "getTransformed" -> getTransformed(envCache, h, br, key, arg, options)
    [] op = "getBoolean" -> getBoolean(envCache, h, br, key, options)
    [] op = "getNumber" -> getNumber(envCache, h, br, key, options)

====
